---- MODULE Spec2Model ----
(***************************************************************************)
(* A model of transform.py: the batch driver (main), the decoder           *)
(* (verified_decode), the handle table loader (load_handles) and the       *)
(* pipeline driver (transform_ead).                                        *)
(*                                                                         *)
(* Four specifications share the variables below; each one drives one      *)
(* function of the module and leaves the variables of the others idle:     *)
(*   Spec           main's loop over files_to_check                        *)
(*   SpecDecode     verified_decode(f, encodings)                          *)
(*   SpecHandles    load_handles(handle_file)                              *)
(*   SpecTransform  transform_ead(xml_as_bytes, handle)                    *)
(***************************************************************************)
EXTENDS Integers, Sequences, FiniteSets, TLC

VARIABLES
    \* ---- verified_decode
    vd_f,            \* the bytes of the file f
    vd_encodings,    \* the encodings argument
    vd_pc,           \* "call" | "returned"
    vd_result,       \* [ret |-> value returned, printed |-> lines printed]
    \* ---- load_handles
    lh_rows,         \* the rows csv.DictReader yields, in row order
    lh_next,         \* index of the next row to read
    lh_pc,           \* "loop" | "returned"
    result,          \* the dict being built
    \* ---- transform_ead
    te_input,        \* [wellformed, handle]: xml_as_bytes (abstracted) and handle
    te_pc,           \* "parse" | "pass" | "return" | "returned" | "raised"
    heap,            \* element id -> content of the element tree rooted there
    tree,            \* id of the element the ElementTree `tree` wraps (0: none yet)
    root,            \* id bound to the local `root` (0: none yet)
    applied,         \* the pass calls made so far, in call order
    te_ret,          \* content of the value returned (<<>> before the return)
    \* ---- main
    args,            \* [resume, encoding]: the parsed flags
    files_to_check,  \* the enumerated input files, in enumeration order
    n,               \* loop index (1-based); Len(files_to_check)+1 after the loop
    pc,              \* "loop" | "resume" | "decode" | "done" | "aborted"
    fs,              \* output path -> what is on disk there
    fs0,             \* fs as it was when main started
    dirs,            \* directories that exist under the output root
    log,             \* files logged by logging.error, in order
    trace            \* which loop indices went through which statements

vd_vars == <<vd_f, vd_encodings, vd_pc, vd_result>>
lh_vars == <<lh_rows, lh_next, lh_pc, result>>
te_vars == <<te_input, te_pc, heap, tree, root, applied, te_ret>>
main_vars == <<args, files_to_check, n, pc, fs, fs0, dirs, log, trace>>
vars == <<vd_vars, lh_vars, te_vars, main_vars>>

\* ------------------------------------------------------------------ bounds
MaxLen == 3      \* longest file, in bytes
MaxRows == 3     \* most rows of the handle table
MaxFiles == 2    \* most files enumerated

\* ------------------------------------------------------------------ helpers
Range(s) == {s[i] : i \in 1..Len(s)}

RECURSIVE SeqsUpTo(_, _)
SeqsUpTo(S, k) ==
    IF k = 0 THEN {<<>>}
    ELSE LET shorter == SeqsUpTo(S, k - 1) IN
         shorter \cup {Append(s, x) : s \in {t \in shorter : Len(t) = k - 1}, x \in S}

\* ============================================================ verified_decode
\* line 18
encodings == <<"ascii", "utf-8", "windows-1252", "latin-1">>

\* The bytes files are made of: 'A', 0xC3, 0xA9, 0x81, 0xE9.
ByteAlphabet == {65, 195, 169, 129, 233}

Err == [ok |-> FALSE, text |-> <<>>]
Ok(t) == [ok |-> TRUE, text |-> t]

\* codec 'ascii', errors='strict': every byte below 0x80, one character each.
DecodeAscii(b) ==
    IF \A i \in 1..Len(b) : b[i] < 128 THEN Ok(b) ELSE Err

\* codec 'latin-1': total, byte value = code point.
DecodeLatin1(b) == Ok(b)

\* codec 'windows-1252', errors='strict': five bytes are unmapped.
Cp1252Undefined == {129, 141, 143, 144, 157}
Cp1252High ==
    [x \in 128..159 |->
        CASE x = 128 -> 8364 [] x = 130 -> 8218 [] x = 131 -> 402
          [] x = 132 -> 8222 [] x = 133 -> 8230 [] x = 134 -> 8224
          [] x = 135 -> 8225 [] x = 136 -> 710  [] x = 137 -> 8240
          [] x = 138 -> 352  [] x = 139 -> 8249 [] x = 140 -> 338
          [] x = 142 -> 381  [] x = 145 -> 8216 [] x = 146 -> 8217
          [] x = 147 -> 8220 [] x = 148 -> 8221 [] x = 149 -> 8226
          [] x = 150 -> 8211 [] x = 151 -> 8212 [] x = 152 -> 732
          [] x = 153 -> 8482 [] x = 154 -> 353  [] x = 155 -> 8250
          [] x = 156 -> 339  [] x = 158 -> 382  [] x = 159 -> 376
          [] OTHER -> 0]
DecodeCp1252(b) ==
    IF \E i \in 1..Len(b) : b[i] \in Cp1252Undefined THEN Err
    ELSE Ok([i \in 1..Len(b) |->
                IF b[i] >= 128 /\ b[i] <= 159 THEN Cp1252High[b[i]] ELSE b[i]])

\* codec 'utf-8', errors='strict'.
Continuation(x) == x >= 128 /\ x <= 191
Utf8SeqLen(b0) ==
    IF b0 < 128 THEN 1
    ELSE IF b0 >= 194 /\ b0 <= 223 THEN 2
    ELSE IF b0 >= 224 /\ b0 <= 239 THEN 3
    ELSE IF b0 >= 240 /\ b0 <= 244 THEN 4
    ELSE 0
\* the second byte's range excludes overlong forms, surrogates and > U+10FFFF
Utf8SecondOk(b0, b1) ==
    /\ Continuation(b1)
    /\ (b0 = 224 => b1 >= 160)
    /\ (b0 = 237 => b1 <= 159)
    /\ (b0 = 240 => b1 >= 144)
    /\ (b0 = 244 => b1 <= 143)
Utf8CodePoint(b, i, len) ==
    CASE len = 1 -> b[i]
      [] len = 2 -> (b[i] - 192) * 64 + (b[i + 1] - 128)
      [] len = 3 -> (b[i] - 224) * 4096 + (b[i + 1] - 128) * 64 + (b[i + 2] - 128)
      [] OTHER   -> (b[i] - 240) * 262144 + (b[i + 1] - 128) * 4096
                      + (b[i + 2] - 128) * 64 + (b[i + 3] - 128)
RECURSIVE DecodeUtf8From(_, _, _)
DecodeUtf8From(b, i, acc) ==
    IF i > Len(b) THEN Ok(acc)
    ELSE LET len == Utf8SeqLen(b[i]) IN
         IF len = 0 \/ i + len - 1 > Len(b) THEN Err
         ELSE IF len >= 2 /\ ~Utf8SecondOk(b[i], b[i + 1]) THEN Err
         ELSE IF \E j \in (i + 2)..(i + len - 1) : ~Continuation(b[j]) THEN Err
         ELSE DecodeUtf8From(b, i + len, Append(acc, Utf8CodePoint(b, i, len)))
DecodeUtf8(b) == DecodeUtf8From(b, 1, <<>>)

\* codecs.open(f, mode='r', encoding=encoding, errors='strict').read()
Decode(encoding, b) ==
    CASE encoding = "ascii"        -> DecodeAscii(b)
      [] encoding = "utf-8"        -> DecodeUtf8(b)
      [] encoding = "windows-1252" -> DecodeCp1252(b)
      [] OTHER                     -> DecodeLatin1(b)

\* Python values main and verified_decode pass around.
PyFalse == [kind |-> "False", text |-> <<>>]
PyStr(t) == [kind |-> "str", text |-> t]
\* `not v`
Not(v) == v.kind = "False" \/ (v.kind = "str" /\ v.text = <<>>)

\* the for loop of lines 48-57, from the k-th encoding on
RECURSIVE verified_decode_from(_, _, _, _)
verified_decode_from(f, encs, k, printed) ==
    IF k > Len(encs) THEN [ret |-> PyFalse, printed |-> printed]
    ELSE LET d == Decode(encs[k], f) IN
         IF d.ok
         THEN [ret |-> PyStr(d.text), printed |-> Append(printed, <<encs[k], "OK">>)]
         ELSE verified_decode_from(f, encs, k + 1, Append(printed, <<encs[k], "Error">>))

\* the loop of lines 48-57 without the return of line 53: every encoding is
\* tried and the last one that decodes decides
verified_decode_no_return(f, encs) ==
    LET decoding == {k \in 1..Len(encs) : Decode(encs[k], f).ok}
        last == CHOOSE k \in decoding : \A j \in decoding : j <= k
    IN  [ret |-> IF decoding = {} THEN PyFalse ELSE PyStr(Decode(encs[last], f).text),
         printed |-> [k \in 1..Len(encs) |->
                        <<encs[k], IF k \in decoding THEN "OK" ELSE "Error">>]]

\* lines 45-57
verified_decode(f, encs) == verified_decode_from(f, encs, 1, <<>>)

NoResult == [ret |-> PyFalse, printed |-> <<>>]

\* every list of distinct candidate encodings
EncodingLists ==
    {s \in SeqsUpTo(Range(encodings), Len(encodings)) :
        \A i, j \in 1..Len(s) : i # j => s[i] # s[j]}

vd_Idle ==
    /\ vd_f = <<>> /\ vd_encodings = <<>> /\ vd_pc = "idle" /\ vd_result = NoResult

vd_Init ==
    /\ vd_f \in SeqsUpTo(ByteAlphabet, MaxLen)
    /\ vd_encodings \in EncodingLists
    /\ vd_pc = "call"
    /\ vd_result = NoResult

CallVerifiedDecode ==
    /\ vd_pc = "call"
    /\ vd_result' = verified_decode(vd_f, vd_encodings)
    /\ vd_pc' = "returned"
    /\ UNCHANGED <<vd_f, vd_encodings, lh_vars, te_vars, main_vars>>


\* =============================================================== load_handles
Identifiers == {"id1", "id2"}
Handles == {"http://hdl/1", "http://hdl/2"}
\* a row as csv.DictReader yields it
Rows == [identifier : Identifiers, handlehttp : Handles]

EmptyDict == [k \in {} |-> ""]

\* the body of the for loop, lines 67-70, without the first-occurrence test
HandleRowLastWins(res, line) ==
    LET id == line.identifier
        handle == line.handlehttp
    IN  [k \in DOMAIN res \cup {id} |-> IF k = id THEN handle ELSE res[k]]

\* the body of the for loop, lines 67-70
HandleRow(res, line) ==
    LET id == line.identifier
        handle == line.handlehttp
    IN  IF id \notin DOMAIN res
        THEN [k \in DOMAIN res \cup {id} |-> IF k = id THEN handle ELSE res[k]]
        ELSE res

lh_Idle ==
    /\ lh_rows = <<>> /\ lh_next = 0 /\ lh_pc = "idle" /\ result = EmptyDict

lh_Init ==
    /\ lh_rows \in SeqsUpTo(Rows, MaxRows)
    /\ lh_next = 1
    /\ lh_pc = "loop"
    /\ result = EmptyDict

\* one iteration of `for line in csv.DictReader(f)`
LoadRow ==
    /\ lh_pc = "loop"
    /\ lh_next <= Len(lh_rows)
    /\ result' = HandleRow(result, lh_rows[lh_next])
    /\ lh_next' = lh_next + 1
    /\ UNCHANGED <<lh_rows, lh_pc, vd_vars, te_vars, main_vars>>

\* the reader is exhausted: return result
LoadReturn ==
    /\ lh_pc = "loop"
    /\ lh_next > Len(lh_rows)
    /\ lh_pc' = "returned"
    /\ UNCHANGED <<lh_rows, lh_next, result, vd_vars, te_vars, main_vars>>

\* ============================================================== transform_ead
\* the calls of lines 85-97 with two of them exchanged
PassOrderSwapped ==
    <<"add_missing_box_containers", "add_missing_extents", "insert_handle",
      "add_title_to_dao", "move_scopecontent", "fix_box_number_discrepancies",
      "remove_multiple_abstracts", "remove_empty_elements",
      "remove_opening_of_title">>

\* the calls of lines 85-97, in source order
PassOrder ==
    <<"add_missing_box_containers", "add_missing_extents", "insert_handle",
      "add_title_to_dao", "fix_box_number_discrepancies", "move_scopecontent",
      "remove_multiple_abstracts", "remove_empty_elements",
      "remove_opening_of_title">>

NoHandle == ""
\* the argument list of the call of pass p: only insert_handle takes the handle
PassArg(p, handle) == IF p = "insert_handle" THEN handle ELSE "-"

\* What a pass does to a document.  A document's content is abstracted to the
\* corrections made to it so far; insert_handle without a handle is a no-op.
PassEffect(p, content, handle) ==
    IF p = "insert_handle" /\ handle = NoHandle THEN content
    ELSE Append(content, <<p, PassArg(p, handle)>>)

EmptyHeap == [i \in {} |-> <<>>]

te_Idle ==
    /\ te_input = [wellformed |-> FALSE, handle |-> NoHandle]
    /\ te_pc = "idle" /\ heap = EmptyHeap /\ tree = 0 /\ root = 0
    /\ applied = <<>> /\ te_ret = <<>>

te_Init ==
    /\ te_input \in [wellformed : BOOLEAN, handle : {NoHandle, "http://hdl/123"}]
    /\ te_pc = "parse"
    /\ heap = EmptyHeap /\ tree = 0 /\ root = 0
    /\ applied = <<>> /\ te_ret = <<>>

\* lines 80-82: tree = ET.parse(...); root = tree.getroot()
Parse ==
    /\ te_pc = "parse"
    /\ IF te_input.wellformed
       THEN /\ heap' = [i \in {1} |-> <<>>]
            /\ tree' = 1
            /\ root' = 1
            /\ te_pc' = "pass"
       ELSE /\ te_pc' = "raised"          \* ET.parse raises on malformed markup
            /\ UNCHANGED <<heap, tree, root>>
    /\ UNCHANGED <<te_input, applied, te_ret, vd_vars, lh_vars, main_vars>>

NextPass == PassOrder[Len(applied) + 1]
Call(p, in, out) ==
    [name |-> p, arg |-> PassArg(p, te_input.handle), input |-> in, output |-> out]

\* root = <pass>(root), the pass mutating its argument and returning it
PassMutates ==
    /\ te_pc = "pass"
    /\ Len(applied) < Len(PassOrder)
    /\ heap' = [heap EXCEPT ![root] = PassEffect(NextPass, heap[root], te_input.handle)]
    /\ applied' = Append(applied, Call(NextPass, root, root))
    /\ UNCHANGED <<te_input, te_pc, tree, root, te_ret, vd_vars, lh_vars, main_vars>>

\* root = <pass>(root), the pass building and returning a new element
PassReturnsNew ==
    /\ te_pc = "pass"
    /\ Len(applied) < Len(PassOrder)
    /\ LET new == Cardinality(DOMAIN heap) + 1 IN
       /\ heap' = [i \in DOMAIN heap \cup {new} |->
                     IF i = new THEN PassEffect(NextPass, heap[root], te_input.handle)
                     ELSE heap[i]]
       /\ applied' = Append(applied, Call(NextPass, root, new))
       /\ root' = new
    /\ UNCHANGED <<te_input, te_pc, tree, te_ret, vd_vars, lh_vars, main_vars>>

\* <pass>(root) raises a structural fault: transform_ead propagates it
PassRaises ==
    /\ te_pc = "pass"
    /\ Len(applied) < Len(PassOrder)
    /\ te_pc' = "raised"
    /\ UNCHANGED <<te_input, heap, tree, root, applied, te_ret,
                   vd_vars, lh_vars, main_vars>>

\* line 99: return tree
Return ==
    /\ te_pc = "pass"
    /\ Len(applied) = Len(PassOrder)
    /\ te_ret' = heap[tree]
    /\ te_pc' = "returned"
    /\ UNCHANGED <<te_input, heap, tree, root, applied, vd_vars, lh_vars, main_vars>>


\* ======================================================================= main
\* Paths are records: an input file [root, dir, name, bytes] (bytes: what is
\* stored at the path), an output path [root, dir, name], a directory
\* [root, dir].
input_dir == "in"
output_dir == "out"

\* the contents input files have: empty, 'A', U+00E9 in utf-8, the byte 0x81
SampleFiles == {<<>>, <<65>>, <<195, 169>>, <<129>>}

InputFile(k, b) ==
    [root |-> input_dir, dir |-> IF k % 2 = 0 THEN "sub" ELSE "", name |-> k,
     bytes |-> b]

\* os.path.relpath(f, input_dir), for f under input_dir
relpath(f) == [dir |-> f.dir, name |-> f.name]
\* line 161
OutputPath(f) == [root |-> output_dir, dir |-> relpath(f).dir, name |-> relpath(f).name]
\* line 162
dirname(path) == [root |-> path.root, dir |-> path.dir]

Absent == [kind |-> "absent", data |-> "", text |-> <<>>]
OldFile == [kind |-> "file", data |-> "old", text |-> <<>>]
Directory == [kind |-> "dir", data |-> "", text |-> <<>>]
TextFile(t) == [kind |-> "file", data |-> "text", text |-> t]
TreeFile == [kind |-> "file", data |-> "tree", text |-> <<>>]

\* The names bound when main's loop runs, with the two the loop reads and
\* nothing binds bound as well.
BoundNamesAll ==
    {"argparse", "codecs", "csv", "BytesIO", "json", "logging", "ET", "os", "re",
     "sys", "xerr", "ead", "encodings", "get_files_in_path", "verified_decode",
     "load_handles", "transform_ead", "main", "border", "handles", "parser",
     "args", "input_dir", "files_to_check", "output_dir", "n", "f",
     "output_path", "parent_dir", "ead_string", "encoding", "ead_tree"}

\* The names bound when main's loop runs: the module's imports, its global
\* `encodings`, its functions, and main's locals.
BoundNames ==
    {"argparse", "codecs", "csv", "BytesIO", "json", "logging", "ET", "os", "re",
     "sys", "xerr", "ead", "encodings", "get_files_in_path", "verified_decode",
     "load_handles", "transform_ead", "main", "border", "handles", "parser",
     "args", "input_dir", "files_to_check", "output_dir", "n", "f",
     "output_path", "parent_dir", "ead_string"}

\* reading an unbound name raises NameError
NameError(name) == name \notin BoundNames

\* line 173 without the isfile test
ResumeSkipsAnyPath(a, st) == a.resume /\ st.kind # "absent"

\* lines 172-173: args.resume and os.path.exists(..) and os.path.isfile(..)
ResumeSkips(a, st) == a.resume /\ st.kind # "absent" /\ st.kind = "file"

NoTrace ==
    [attempted |-> {}, skipped |-> {}, tried |-> {}, decoded |-> {},
     failed |-> {}, transformed |-> {}, written |-> {}]

main_Idle ==
    /\ args = [resume |-> FALSE, encoding |-> FALSE]
    /\ files_to_check = <<>> /\ n = 0 /\ pc = "idle"
    /\ fs = [p \in {} |-> Absent] /\ fs0 = fs /\ dirs = {}
    /\ log = <<>> /\ trace = NoTrace

main_Init ==
    /\ args \in [resume : BOOLEAN, encoding : BOOLEAN]
    /\ \E m \in 0..MaxFiles :
         \E bs \in [1..m -> SampleFiles] :
            files_to_check = [k \in 1..m |-> InputFile(k, bs[k])]
    /\ n = 1
    /\ pc = "loop"
    /\ fs \in [{OutputPath(files_to_check[k]) : k \in 1..Len(files_to_check)}
                 -> {Absent, OldFile, Directory}]
    /\ fs0 = fs
    /\ dirs = {dirname(p) : p \in {q \in DOMAIN fs : fs[q].kind # "absent"}}
    /\ log = <<>>
    /\ trace = NoTrace

f == files_to_check[n]
output_path == OutputPath(f)
Mark(field) == [trace EXCEPT ![field] = @ \cup {n}]

\* lines 159-169: next file, output path, parent directory
LoopHead ==
    /\ pc = "loop"
    /\ n <= Len(files_to_check)
    /\ dirs' = dirs \cup {dirname(output_path)}
    /\ trace' = Mark("attempted")
    /\ pc' = "resume"
    /\ UNCHANGED <<args, files_to_check, n, fs, fs0, log, vd_vars, lh_vars, te_vars>>

\* the for loop is exhausted: main returns
LoopExit ==
    /\ pc = "loop"
    /\ n > Len(files_to_check)
    /\ pc' = "done"
    /\ UNCHANGED <<args, files_to_check, n, fs, fs0, dirs, log, trace,
                   vd_vars, lh_vars, te_vars>>

\* lines 172-175, the skip taken: continue
ResumeSkip ==
    /\ pc = "resume"
    /\ ResumeSkips(args, fs[output_path])
    /\ trace' = Mark("skipped")
    /\ n' = n + 1
    /\ pc' = "loop"
    /\ UNCHANGED <<args, files_to_check, fs, fs0, dirs, log, vd_vars, lh_vars, te_vars>>

\* lines 172-175, the skip not taken
ResumeProceed ==
    /\ pc = "resume"
    /\ ~ResumeSkips(args, fs[output_path])
    /\ pc' = "decode"
    /\ UNCHANGED <<args, files_to_check, n, fs, fs0, dirs, log, trace,
                   vd_vars, lh_vars, te_vars>>

\* an exception nothing catches leaves main
Raise(tr) ==
    /\ pc' = "aborted"
    /\ trace' = tr
    /\ UNCHANGED <<n, fs, log>>

\* `continue`
Continue(tr) ==
    /\ pc' = "loop"
    /\ n' = n + 1
    /\ trace' = tr

\* lines 178-195: decode, then skip, write the text, or write the tree
DecodeAndWrite ==
    /\ pc = "decode"
    /\ LET t1 == Mark("tried") IN
       IF NameError("encoding")
       THEN Raise(t1)                                            \* line 178
       ELSE
         LET ead_string == verified_decode(f.bytes, encodings).ret
             t2 == [t1 EXCEPT !.decoded = @ \cup {n}]
         IN
         IF Not(ead_string)
         THEN /\ log' = Append(log, f)                           \* lines 180-183
              /\ Continue([t2 EXCEPT !.failed = @ \cup {n}])
              /\ UNCHANGED fs
         ELSE IF args.encoding
         THEN IF fs[output_path].kind = "dir"                    \* lines 185-189
              THEN Raise(t2)
              ELSE /\ fs' = [fs EXCEPT ![output_path] = TextFile(ead_string.text)]
                   /\ Continue([t2 EXCEPT !.written = @ \cup {n}])
                   /\ UNCHANGED log
         ELSE IF NameError("ead_tree") \/ fs[output_path].kind = "dir"
         THEN Raise(t2)                                          \* line 195
         ELSE /\ fs' = [fs EXCEPT ![output_path] = TreeFile]
              /\ Continue([t2 EXCEPT !.written = @ \cup {n}])
              /\ UNCHANGED log
    /\ UNCHANGED <<args, files_to_check, fs0, dirs, vd_vars, lh_vars, te_vars>>

\* ============================================================= specifications
Init == vd_Idle /\ lh_Idle /\ te_Idle /\ main_Init
Next == LoopHead \/ LoopExit \/ ResumeSkip \/ ResumeProceed \/ DecodeAndWrite
Spec == Init /\ [][Next]_vars

InitDecode == vd_Init /\ lh_Idle /\ te_Idle /\ main_Idle
NextDecode == CallVerifiedDecode
SpecDecode == InitDecode /\ [][NextDecode]_vars

InitHandles == vd_Idle /\ lh_Init /\ te_Idle /\ main_Idle
NextHandles == LoadRow \/ LoadReturn
SpecHandles == InitHandles /\ [][NextHandles]_vars

InitTransform == vd_Idle /\ lh_Idle /\ te_Init /\ main_Idle
NextTransform == Parse \/ PassMutates \/ PassReturnsNew \/ PassRaises \/ Return
SpecTransform == InitTransform /\ [][NextTransform]_vars


\* ===================================================================== claims
Min(S) == CHOOSE x \in S : \A y \in S : x <= y

\* ---- C1: transform_ead calls the nine passes once each in the fixed order
\* add_missing_box_containers, add_missing_extents, insert_handle (with the
\* handle), add_title_to_dao, fix_box_number_discrepancies, move_scopecontent,
\* remove_multiple_abstracts, remove_empty_elements, remove_opening_of_title;
\* the first receives the parsed root, every later one the value the one
\* before it returned; and it returns only after all nine.
NinePasses ==
    <<"add_missing_box_containers", "add_missing_extents", "insert_handle",
      "add_title_to_dao", "fix_box_number_discrepancies", "move_scopecontent",
      "remove_multiple_abstracts", "remove_empty_elements",
      "remove_opening_of_title">>

C1_NinePassesInOrder ==
    /\ Len(applied) <= Len(NinePasses)
    /\ \A k \in 1..Len(applied) :
         /\ applied[k].name = NinePasses[k]
         /\ applied[k].arg = IF k = 3 THEN te_input.handle ELSE "-"
         /\ applied[k].input = IF k = 1 THEN tree ELSE applied[k - 1].output
    /\ (te_pc = "returned" => Len(applied) = Len(NinePasses))

\* transform_ead has returned, and on the way a pass handed a new element to
\* its successor
C1_Witness ==
    /\ te_pc = "returned"
    /\ \E k \in 2..Len(applied) : applied[k].input # applied[1].input

\* ---- C10: the document transform_ead returns is the one the ninth pass
\* returned, whether the passes mutate their argument or return a new tree.
C10_ReturnsLastPassOutput ==
    te_pc = "returned" => te_ret = heap[applied[Len(applied)].output]

C7_FirstOccurrenceWins ==
    LET read == IF lh_pc = "idle" THEN 0 ELSE lh_next - 1
        ids == {lh_rows[i].identifier : i \in 1..read}
        first(id) == Min({i \in 1..read : lh_rows[i].identifier = id})
    IN  /\ DOMAIN result = ids
        /\ \A id \in ids : result[id] = lh_rows[first(id)].handlehttp
        /\ (lh_pc = "returned" => read = Len(lh_rows))

\* the table has been read and two of its rows carry one identifier with
\* different handles
C7_Witness ==
    /\ lh_pc = "returned"
    /\ \E i, j \in 1..Len(lh_rows) :
         /\ i < j
         /\ lh_rows[i].identifier = lh_rows[j].identifier
         /\ lh_rows[i].handlehttp # lh_rows[j].handlehttp

\* ---- main
Terminated == pc \in {"done", "aborted"}
Enumerated == 1..Len(files_to_check)
Bytes(k) == files_to_check[k].bytes
Out(k) == OutputPath(files_to_check[k])
Decodable(b) == \E i \in 1..Len(encodings) : Decode(encodings[i], b).ok
DecodedText(b) ==
    Decode(encodings[Min({i \in 1..Len(encodings) : Decode(encodings[i], b).ok})], b).text

\* ---- C2: when main ends a run in normal mode, every enumerated file that
\* resume did not skip and that some candidate encoding decodes has been
\* transformed and its transformed document written to its mirrored path.
C2_NormalModeTransformsAndWrites ==
    (Terminated /\ ~args.encoding) =>
        \A k \in Enumerated \ trace.skipped :
            Decodable(Bytes(k)) =>
                /\ k \in trace.transformed
                /\ k \in trace.written
                /\ fs[Out(k)] = TreeFile

\* ---- C3: a failure on one file never ends the batch: when main ends, every
\* enumerated file has been attempted.
C3_EveryFileAttempted ==
    Terminated => trace.attempted = Enumerated

\* ---- C4: in normal mode nothing is written for a file whose pipeline has not
\* run to completion: a file written has been transformed, and the output path
\* of a file not transformed holds what it held when main started.
C4_NoWriteBeforePipeline ==
    ~args.encoding =>
        \A k \in Enumerated :
            /\ (k \in trace.written => k \in trace.transformed)
            /\ (k \notin trace.transformed => fs[Out(k)] = fs0[Out(k)])

\* normal mode, the loop took a file past the resume test and stopped on it
\* with its pipeline not run
C4_Witness ==
    /\ ~args.encoding
    /\ pc = "aborted"
    /\ n \in trace.tried
    /\ n \notin trace.transformed

C8_EncodingOnlyWritesDecodedText ==
    (Terminated /\ args.encoding) =>
        \A k \in Enumerated \ trace.skipped :
            /\ k \notin trace.transformed
            /\ (Decodable(Bytes(k)) => fs[Out(k)] = TextFile(DecodedText(Bytes(k))))
            /\ (~Decodable(Bytes(k)) => k \notin trace.written)

\* ---- C9: once the loop is past a file's resume test: if the resume flag is
\* set and the file's output path held a regular file, the file was skipped,
\* neither decoded nor transformed nor written, and its output is as it was;
\* otherwise it was not skipped and the loop went on to decode it.
C9_ResumeSkipsExistingOutputs ==
    \A k \in trace.attempted :
        (k < n \/ pc \in {"decode", "aborted"}) =>
            IF args.resume /\ fs0[Out(k)].kind = "file"
            THEN /\ k \in trace.skipped
                 /\ k \notin trace.tried \cup trace.decoded
                 /\ k \notin trace.transformed \cup trace.written
                 /\ fs[Out(k)] = fs0[Out(k)]
            ELSE /\ k \notin trace.skipped
                 /\ ((k < n \/ pc = "aborted") => k \in trace.tried)

\* the resume flag is set, one file was skipped over its existing output and a
\* later one, without output, went on to the decode statement
C9_Witness ==
    /\ args.resume
    /\ trace.skipped # {}
    /\ pc = "aborted"
    /\ fs0[Out(n)].kind = "absent"

====
